---- MODULE Spec2Model ----
(***************************************************************************)
(* Model of src/site_scraper.py (class SiteMirror): a pool of worker       *)
(* threads draining one queue.Queue of CrawlTask, a seen-set / saved-set / *)
(* page counter guarded by one threading.Lock, and the coordinator run()   *)
(* that seeds the queue, waits on q.join() and leaves the executor's       *)
(* `with` block.                                                           *)
(***************************************************************************)
EXTENDS Integers, Sequences, FiniteSets, TLC

(***************************************************************************)
(* Bounds of the model.                                                    *)
(***************************************************************************)
\* largest pool size tried (self.workers ranges over 1..MaxWorkers)
MaxWorkers == 2
\* largest --max-pages value tried (max_pages ranges over 0..MaxPagesArg)
MaxPagesArg == 2
\* how many fetches or saves of one run may fail
MaxFaults == 1

Workers == 1..MaxWorkers

(***************************************************************************)
(* URLs.  A URL string is modelled by what urlparse() splits it into:      *)
(* scheme, netloc, path, query, fragment.  A netloc is the host's labels   *)
(* (lower-cased), whether the string spelled the host with upper-case      *)
(* letters, and the port text.  A relative reference has scheme "" and     *)
(* netloc NoNetloc.                                                        *)
(***************************************************************************)
Netloc(labels, upper, port) == [labels |-> labels, upper |-> upper, port |-> port]

NoNetloc == Netloc(<<>>, FALSE, "")
ExCom    == Netloc(<<"ex", "com">>, FALSE, "")
ExComUp  == Netloc(<<"ex", "com">>, TRUE, "")
SubExCom == Netloc(<<"sub", "ex", "com">>, FALSE, "")
EvilCom  == Netloc(<<"evil", "com">>, FALSE, "")

Url(scheme, netloc, path, query, frag) ==
    [scheme |-> scheme, netloc |-> netloc, path |-> path, query |-> query, frag |-> frag]

\* an http URL on ex.com, and a relative reference with a fragment
H(path)         == Url("http", ExCom, path, "", "")
Rel(path, frag) == Url("", NoNetloc, path, "", frag)

\* urlparse(u).hostname: the host lower-cased, without the port
Hostname(u) == u.netloc.labels

\* urljoin(base, ref) for the references of the model: an absolute URL is
\* kept, an absolute-path reference takes the base's scheme and netloc
UrlJoin(base, ref) ==
    IF ref.scheme = ""
    THEN [ref EXCEPT !.scheme = base.scheme, !.netloc = base.netloc]
    ELSE ref

\* NormalizeUrl that keeps the fragment
NormalizeUrlKeepsFragment(u) == u

\* _normalize_url: urldefrag drops the fragment, the rest is kept
NormalizeUrl(u) == [u EXCEPT !.frag = ""]

\* _is_http
IsHttp(u) == u.scheme \in {"http", "https"}

\* str.endswith("." + base) on dotted host names, on their labels
EndsWithDot(h, b) ==
    /\ Len(h) > Len(b)
    /\ SubSeq(h, Len(h) - Len(b) + 1, Len(h)) = b


(***************************************************************************)
(* The site being mirrored: the input of the crawl.  A response body is    *)
(* the set of its elements (tag, attribute, candidate references, rel) for *)
(* HTML and the set of its url(...) references for CSS.                    *)
(***************************************************************************)
El(tag, attr, cands, rel) == [tag |-> tag, attr |-> attr, cands |-> cands, rel |-> rel]

Doc(ct, els, css) == [ct |-> ct, els |-> els, css |-> css]

RawStartUrl == Url("http", ExCom, "/", "", "top")

SubRoot == Url("http", SubExCom, "/", "", "")

Site ==
    (H("/") :> Doc("text/html",
        { El("a", "href", {Rel("/a", "top")}, ""),
          El("a", "href", {Rel("/a", "end")}, ""),
          El("a", "href", {SubRoot}, ""),
          El("a", "href", {Url("http", EvilCom, "/x", "", "")}, ""),
          El("a", "href", {Url("mailto", NoNetloc, "bob", "", "")}, ""),
          El("a", "href", {Url("http", ExComUp, "/b", "", "")}, ""),
          El("iframe", "src", {Rel("/private/x", "")}, ""),
          El("link", "href", {Rel("/s.css", "")}, "stylesheet"),
          El("link", "href", {Rel("/feed", "")}, "alternate") }, {}))
 @@ (H("/a") :> Doc("text/html",
        { El("a", "href", {Rel("/", "x")}, ""),
          El("a", "href", {Rel("/i.png", "")}, ""),
          El("img", "srcset", {Rel("/i.png", "2x"), Url("http", EvilCom, "/big.png", "", "")}, "") }, {}))
 @@ (H("/private/x") :> Doc("text/html",
        { El("img", "src", {Rel("/i.png", "")}, "") }, {}))
 @@ (SubRoot :> Doc("text/html", {}, {}))
 @@ (H("/s.css") :> Doc("text/css", {},
        { Rel("/i.png", ""),
          Url("http", EvilCom, "/e.png", "", ""),
          Url("data", NoNetloc, "image/png;base64", "", "") }))
 @@ (H("/i.png") :> Doc("image/png", {}, {}))

\* every URL the crawl can name: the start URL and every reference of the
\* site, resolved and normalized
RefsOf(u) == UNION { e.cands : e \in Site[u].els } \cup Site[u].css

AllUrls ==
    {NormalizeUrl(RawStartUrl)} \cup DOMAIN Site
    \cup UNION { { NormalizeUrl(UrlJoin(u, r)) : r \in RefsOf(u) } : u \in DOMAIN Site }

\* the response of a URL that answers 200 (a URL outside the site answers
\* with an empty body)
Response(u) == IF u \in DOMAIN Site THEN Site[u] ELSE Doc("", {}, {})

\* what one GET can come to: requests.RequestException, a status other
\* than 200, or 200
FetchOutcomes == {"error", "not200", "ok"}

\* what save_response can come to: the file is written, open()/write()
\* raises OSError, or Path.mkdir raises OSError
SaveOutcomes == {"saved", "write_oserror", "mkdir_oserror"}

\* robots.txt of the origin as RobotFileParser.can_fetch answers it
RobotsTxt(u) ==
    CASE u.path = "/private/x" -> "disallow"
      [] u.path = "/i.png"     -> "raise"
      [] OTHER                 -> "allow"

None == "None"

(***************************************************************************)
(* State.                                                                  *)
(***************************************************************************)
VARIABLES
    \* SiteMirror.__init__ arguments and what construction derives from them
    max_pages, include_subdomains, ignore_robots, workers, rp,
    \* how _init_robots ended: "not_called", "loaded" or "raised"
    robots_load,
    \* the tracking fields and the lock (0: free, else the holder; the
    \* coordinator holds it as Coordinator)
    seen_urls, saved_urls, page_count, lock,
    \* queue.Queue: its items and its unfinished_tasks counter
    q, unfinished,
    \* each worker thread: where it is in worker(), its task's URL, what is
    \* left of the loops over pages / assets / CSS urls, the argument of the
    \* enqueue() call it is in, and the loop that call returns to
    wpc, task, pages, assets, css_urls, enq_url, enq_ret,
    \* run(): where the coordinator is, whether KeyboardInterrupt was raised
    \* in q.join(), and the two counts of the summary once printed
    cpc, interrupted, summary,
    \* history of the run: per URL the §4.6 state and how many times it was
    \* put on the queue, dequeued and fetched
    status, puts, gets, fetches,
    \* url_to_local_path on its own: two URLs, the content type they are
    \* mapped with, and the two local paths once computed
    map_a, map_b, map_ct, local_a, local_b

config  == <<max_pages, include_subdomains, ignore_robots, workers, rp, robots_load>>
shared  == <<seen_urls, saved_urls, page_count>>
locals  == <<task, pages, assets, css_urls, enq_url, enq_ret>>
coord   == <<cpc, interrupted, summary>>
history == <<status, puts, gets, fetches>>
mapper  == <<map_a, map_b, map_ct, local_a, local_b>>
crawl   == <<config, shared, lock, q, unfinished, wpc, locals, coord, history>>
vars    == <<crawl, mapper>>

Coordinator == MaxWorkers + 1

NoUrl == Url("", NoNetloc, "", "", "")

\* a local path not computed yet
NoPath == [dirs |-> <<>>, name |-> <<>>]

\* self.start_url and self.base
start_url == NormalizeUrl(RawStartUrl)
base      == start_url

(***************************************************************************)
(* Pure helpers of SiteMirror.                                             *)
(***************************************************************************)
\* SameDomain with the include_subdomains test forgotten
SameDomainIgnoringFlag(u) ==
    IF u.netloc = base.netloc
    THEN TRUE
    ELSE /\ Hostname(u) # <<>>
         /\ Hostname(base) # <<>>
         /\ EndsWithDot(Hostname(u), Hostname(base))

\* _same_domain
SameDomain(u) ==
    IF u.netloc = base.netloc
    THEN TRUE
    ELSE IF include_subdomains
         THEN /\ Hostname(u) # <<>>
              /\ Hostname(base) # <<>>
              /\ EndsWithDot(Hostname(u), Hostname(base))
         ELSE FALSE

\* InitRobots that keeps the parser when rp.read() raised
InitRobotsKeepsParser(load) == "loaded"

\* _init_robots: rp.read() raising leaves self.rp None
InitRobots(load) == IF load = "raised" THEN None ELSE "loaded"

\* AllowedByRobots with the ignore_robots test inverted
AllowedByRobotsInverted(u) ==
    IF ~ignore_robots \/ rp = None
    THEN TRUE
    ELSE CASE RobotsTxt(u) = "raise"    -> TRUE
           [] RobotsTxt(u) = "disallow" -> FALSE
           [] OTHER                     -> TRUE

\* _allowed_by_robots
AllowedByRobots(u) ==
    IF ignore_robots \/ rp = None
    THEN TRUE
    ELSE CASE RobotsTxt(u) = "raise"    -> TRUE
           [] RobotsTxt(u) = "disallow" -> FALSE
           [] OTHER                     -> TRUE

ASSET_ATTRS ==
    { <<"img", "src">>, <<"img", "srcset">>, <<"script", "src">>, <<"link", "href">>,
      <<"source", "src">>, <<"video", "src">>, <<"audio", "src">>, <<"track", "src">>,
      <<"iframe", "src">>, <<"embed", "src">>, <<"object", "data">> }

LINK_RELS_AS_ASSETS ==
    {"stylesheet", "icon", "shortcut icon", "apple-touch-icon", "preload", "prefetch"}

HTML_CT == {"text/html", "application/xhtml+xml"}
CSS_CT  == {"text/css"}

\* candidate.lower().endswith((".css", ".ico", ".png", ".svg", ".webmanifest"))
\* for the references of the site
EndsWithAssetExt(c) ==
    /\ c.frag = ""
    /\ c.query = ""
    /\ c.path \in {"/s.css", "/i.png", "/big.png", "/e.png"}

\* the <link> filter of extract_links_and_assets: TRUE when the candidate
\* is skipped
LinkSkipped(el, c) ==
    /\ el.tag = "link"
    /\ el.rel # ""
    /\ el.rel \notin LINK_RELS_AS_ASSETS
    /\ ~EndsWithAssetExt(c)

\* ExtractPages without the scope test
ExtractPagesUnscoped(base_url, doc) ==
    { u \in { NormalizeUrl(UrlJoin(base_url, c)) :
                c \in UNION { e.cands : e \in { x \in doc.els : x.tag = "a" /\ x.attr = "href" } } } :
        IsHttp(u) }

\* extract_links_and_assets: (pages, assets)
ExtractPages(base_url, doc) ==
    { u \in { NormalizeUrl(UrlJoin(base_url, c)) :
                c \in UNION { e.cands : e \in { x \in doc.els : x.tag = "a" /\ x.attr = "href" } } } :
        IsHttp(u) /\ SameDomain(u) }

ExtractAssets(base_url, doc) ==
    { u \in UNION { { NormalizeUrl(UrlJoin(base_url, c)) : c \in { k \in e.cands : ~LinkSkipped(e, k) } } :
                    e \in { x \in doc.els : <<x.tag, x.attr>> \in ASSET_ATTRS } } :
        IsHttp(u) /\ SameDomain(u) }

\* extract_css_urls: CSS_URL_RE leaves data: URIs out
ExtractCssUrls(base_url, doc) ==
    { u \in { NormalizeUrl(UrlJoin(base_url, c)) : c \in { k \in doc.css : k.scheme # "data" } } :
        IsHttp(u) /\ SameDomain(u) }

IsHtml(ct) == ct \in HTML_CT
IsCss(ct)  == ct \in CSS_CT

\* the cap test of worker(): self.max_pages and self.page_count >= self.max_pages
CapReached == max_pages # 0 /\ page_count >= max_pages

(***************************************************************************)
(* Init: the object after __init__.                                        *)
(***************************************************************************)
Init ==
    /\ max_pages \in 0..MaxPagesArg
    /\ include_subdomains \in BOOLEAN
    /\ ignore_robots \in BOOLEAN
    /\ workers \in 1..MaxWorkers
    /\ robots_load \in (IF ignore_robots THEN {"not_called"} ELSE {"loaded", "raised"})
    /\ rp = (IF ignore_robots THEN None ELSE InitRobots(robots_load))
    /\ seen_urls = {}
    /\ saved_urls = {}
    /\ page_count = 0
    /\ lock = 0
    /\ q = <<>>
    /\ unfinished = 0
    /\ wpc = [w \in Workers |-> "unstarted"]
    /\ task = [w \in Workers |-> NoUrl]
    /\ pages = [w \in Workers |-> {}]
    /\ assets = [w \in Workers |-> {}]
    /\ css_urls = [w \in Workers |-> {}]
    /\ enq_url = [w \in Workers |-> NoUrl]
    /\ enq_ret = [w \in Workers |-> ""]
    /\ cpc = "enqueue"
    /\ interrupted = FALSE
    /\ summary = None
    /\ status = [u \in AllUrls |-> "Unseen"]
    /\ puts = [u \in AllUrls |-> 0]
    /\ gets = [u \in AllUrls |-> 0]
    /\ fetches = [u \in AllUrls |-> 0]
    /\ map_a = NoUrl /\ map_b = NoUrl /\ map_ct = ""
    /\ local_a = NoPath /\ local_b = NoPath

(***************************************************************************)
(* queue.Queue and the lock.                                               *)
(***************************************************************************)
\* q.put(CrawlTask(url)): the item is appended and unfinished_tasks grows
QPut(u) ==
    /\ q' = Append(q, u)
    /\ unfinished' = unfinished + 1
    /\ puts' = [puts EXCEPT ![u] = @ + 1]

\* q.task_done()
TaskDone == unfinished' = unfinished - 1

\* failures so far: tasks that ended Failed and workers whose save raised
FaultsSoFar ==
    Cardinality({ u \in AllUrls : status[u] = "Failed" })
    + Cardinality({ w \in Workers : wpc[w] = "raised" })

\* the outcomes the environment may still choose from
MayFail(outcomes, good) == IF FaultsSoFar < MaxFaults THEN outcomes ELSE {good}

\* AlreadySeen testing the wrong set
AlreadySeenUsesSaved(u) == u \in saved_urls

\* the test of enqueue() under the lock: TRUE when the URL is dropped
AlreadySeen(u) == u \in seen_urls

\* NextPageCount without the cap test
NextPageCountUncapped == page_count + 1

\* the counter update of worker() under the lock
NextPageCount == IF CapReached THEN page_count ELSE page_count + 1

\* the page loop's test under the lock: TRUE when page p is not scheduled
PageSkippedAtCap(p) == CapReached /\ p \notin seen_urls

(***************************************************************************)
(* run(): the coordinator.                                                 *)
(***************************************************************************)
\* self.enqueue(self.start_url), before any worker thread exists
CoordEnqueue ==
    /\ cpc = "enqueue"
    /\ LET u == NormalizeUrl(start_url) IN
         IF AlreadySeen(u)
         THEN UNCHANGED <<seen_urls, q, unfinished, puts, status>>
         ELSE /\ seen_urls' = seen_urls \cup {u}
              /\ QPut(u)
              /\ status' = [status EXCEPT ![u] = "Enqueued"]
    /\ cpc' = "submit"
    /\ UNCHANGED <<config, mapper, saved_urls, page_count, lock, wpc, locals,
                   interrupted, summary, gets, fetches>>

\* futures = [ex.submit(self.worker, i) for i in range(self.workers)]
CoordSubmit ==
    /\ cpc = "submit"
    /\ wpc' = [w \in Workers |-> IF w <= workers THEN "get" ELSE "unstarted"]
    /\ cpc' = "join"
    /\ UNCHANGED <<config, mapper, shared, lock, q, unfinished, locals, interrupted, summary, history>>

\* JoinReturns waiting for an empty queue instead of for every task_done
JoinReturnsWhenQueueEmpty ==
    /\ cpc = "join"
    /\ q = <<>>
    /\ cpc' = "exit_with"
    /\ UNCHANGED <<config, mapper, shared, lock, q, unfinished, wpc, locals, interrupted, summary, history>>

\* self.q.join() returns: unfinished_tasks is 0
JoinReturns ==
    /\ cpc = "join"
    /\ unfinished = 0
    /\ cpc' = "exit_with"
    /\ UNCHANGED <<config, mapper, shared, lock, q, unfinished, wpc, locals, interrupted, summary, history>>

\* KeyboardInterrupt raised in self.q.join() and caught
KeyboardInterrupt ==
    /\ cpc = "join"
    /\ interrupted' = TRUE
    /\ cpc' = "exit_with"
    /\ UNCHANGED <<config, mapper, shared, lock, q, unfinished, wpc, locals, summary, history>>

\* a worker's call of worker() is over: it returned or raised
WorkerOver(w) == wpc[w] \in {"unstarted", "returned", "raised"}

\* leaving the `with ThreadPoolExecutor` block: shutdown(wait=True) joins
\* every worker thread
ExecutorExit ==
    /\ cpc = "exit_with"
    /\ \A w \in Workers : WorkerOver(w)
    /\ cpc' = "summary"
    /\ UNCHANGED <<config, mapper, shared, lock, q, unfinished, wpc, locals, interrupted, summary, history>>

\* the prints after the `with` block
PrintSummary ==
    /\ cpc = "summary"
    /\ summary' = [scheduled |-> Cardinality(seen_urls), saved |-> Cardinality(saved_urls)]
    /\ cpc' = "done"
    /\ UNCHANGED <<config, mapper, shared, lock, q, unfinished, wpc, locals, interrupted, history>>

(***************************************************************************)
(* worker(): one action per step of the loop.                              *)
(***************************************************************************)
Goto(w, label) == wpc' = [wpc EXCEPT ![w] = label]

SetStatus(u, st) == status' = [status EXCEPT ![u] = st]

\* task = self.q.get(timeout=1.0) finds an item
Get(w) ==
    /\ wpc[w] = "get"
    /\ q # <<>>
    /\ task' = [task EXCEPT ![w] = Head(q)]
    /\ q' = Tail(q)
    /\ gets' = [gets EXCEPT ![Head(q)] = @ + 1]
    /\ SetStatus(Head(q), "InProgress")
    /\ Goto(w, "robots")
    /\ UNCHANGED <<config, mapper, shared, lock, unfinished, pages, assets, css_urls, enq_url, enq_ret,
                   coord, puts, fetches>>

\* q.get raises queue.Empty after the bounded wait: the worker returns
GetTimesOut(w) ==
    /\ wpc[w] = "get"
    /\ q = <<>>
    /\ Goto(w, "returned")
    /\ UNCHANGED <<config, mapper, shared, lock, q, unfinished, locals, coord, history>>

\* if not self._allowed_by_robots(url): task_done(); continue
RobotsGate(w) ==
    /\ wpc[w] = "robots"
    /\ IF AllowedByRobots(task[w])
       THEN /\ Goto(w, "fetch")
            /\ UNCHANGED <<unfinished, status>>
       ELSE /\ TaskDone
            /\ SetStatus(task[w], "Skipped")
            /\ Goto(w, "get")
    /\ UNCHANGED <<config, mapper, shared, lock, q, locals, coord, puts, gets, fetches>>

\* resp = self.fetch(url); None or a status other than 200 ends the task
Fetch(w) ==
    /\ wpc[w] = "fetch"
    /\ fetches' = [fetches EXCEPT ![task[w]] = @ + 1]
    /\ \E outcome \in MayFail(FetchOutcomes, "ok") :
         IF outcome = "ok"
         THEN /\ Goto(w, "save")
              /\ UNCHANGED <<unfinished, status>>
         ELSE /\ TaskDone
              /\ SetStatus(task[w], "Failed")
              /\ Goto(w, "get")
    /\ UNCHANGED <<config, mapper, shared, lock, q, locals, coord, puts, gets>>

\* saved_path = self.save_response(url, resp).  Path.mkdir is outside the
\* try: its OSError leaves worker() as an exception; the OSError of
\* open()/write() is caught and gives None
Save(w) ==
    /\ wpc[w] = "save"
    /\ \E outcome \in MayFail(SaveOutcomes, "saved") :
         CASE outcome = "mkdir_oserror" ->
                /\ Goto(w, "raised")
                /\ UNCHANGED <<unfinished, status>>
           [] outcome = "write_oserror" ->
                /\ TaskDone
                /\ SetStatus(task[w], "Failed")
                /\ Goto(w, "get")
           [] OTHER ->
                /\ Goto(w, "lock_saved")
                /\ UNCHANGED <<unfinished, status>>
    /\ UNCHANGED <<config, mapper, shared, lock, q, locals, coord, puts, gets, fetches>>

\* with self.lock: (acquire) before self.saved_urls.add(url)
LockSaved(w) ==
    /\ wpc[w] = "lock_saved"
    /\ lock = 0
    /\ lock' = w
    /\ Goto(w, "add_saved")
    /\ UNCHANGED <<config, mapper, shared, q, unfinished, locals, coord, history>>

\* AddSaved that counts every saved response, whatever its content type
AddSavedCountsAll(w) ==
    /\ wpc[w] = "add_saved"
    /\ saved_urls' = saved_urls \cup {task[w]}
    /\ lock' = 0
    /\ Goto(w, "lock_count")
    /\ UNCHANGED <<config, mapper, seen_urls, page_count, q, unfinished, task, pages, assets,
                   css_urls, enq_url, enq_ret, coord, history>>

\* self.saved_urls.add(url), release; then the branch on content_type
AddSaved(w) ==
    /\ wpc[w] = "add_saved"
    /\ saved_urls' = saved_urls \cup {task[w]}
    /\ lock' = 0
    /\ LET ct == Response(task[w]).ct IN
         IF IsHtml(ct)
         THEN /\ Goto(w, "lock_count")
              /\ UNCHANGED css_urls
         ELSE IF IsCss(ct)
              THEN /\ css_urls' = [css_urls EXCEPT ![w] = ExtractCssUrls(task[w], Response(task[w]))]
                   /\ Goto(w, "css")
              ELSE /\ Goto(w, "task_done")
                   /\ UNCHANGED css_urls
    /\ UNCHANGED <<config, mapper, seen_urls, page_count, q, unfinished, task, pages, assets,
                   enq_url, enq_ret, coord, history>>

\* with self.lock: (acquire) before the page counter
LockCount(w) ==
    /\ wpc[w] = "lock_count"
    /\ lock = 0
    /\ lock' = w
    /\ Goto(w, "count")
    /\ UNCHANGED <<config, mapper, shared, q, unfinished, locals, coord, history>>

\* the counter update, release; then pages, assets = extract_links_and_assets
CountPage(w) ==
    /\ wpc[w] = "count"
    /\ page_count' = NextPageCount
    /\ lock' = 0
    /\ pages' = [pages EXCEPT ![w] = ExtractPages(task[w], Response(task[w]))]
    /\ assets' = [assets EXCEPT ![w] = ExtractAssets(task[w], Response(task[w]))]
    /\ Goto(w, "pages")
    /\ UNCHANGED <<config, mapper, seen_urls, saved_urls, q, unfinished, task, css_urls,
                   enq_url, enq_ret, coord, history>>

\* for p in pages: with self.lock: (acquire)
PagesNext(w) ==
    /\ wpc[w] = "pages"
    /\ lock = 0
    /\ \E p \in pages[w] :
         /\ pages' = [pages EXCEPT ![w] = @ \ {p}]
         /\ enq_url' = [enq_url EXCEPT ![w] = p]
    /\ lock' = w
    /\ Goto(w, "cap_check")
    /\ UNCHANGED <<config, mapper, shared, q, unfinished, task, assets, css_urls, enq_ret, coord, history>>

\* CapCheck that calls enqueue() inside the locked region
CapCheckKeepsLock(w) ==
    /\ wpc[w] = "cap_check"
    /\ IF PageSkippedAtCap(enq_url[w]) \/ ~SameDomain(enq_url[w])
       THEN /\ lock' = 0
            /\ Goto(w, "pages")
            /\ UNCHANGED <<enq_url, enq_ret>>
       ELSE /\ lock' = lock
            /\ enq_url' = [enq_url EXCEPT ![w] = NormalizeUrl(@)]
            /\ enq_ret' = [enq_ret EXCEPT ![w] = "pages"]
            /\ Goto(w, "enq_lock")
    /\ UNCHANGED <<config, mapper, shared, q, unfinished, task, pages, assets, css_urls, coord, history>>

\* the cap test under the lock, release; then if self._same_domain(p):
\* self.enqueue(p), whose first statement normalizes its argument
CapCheck(w) ==
    /\ wpc[w] = "cap_check"
    /\ lock' = 0
    /\ IF PageSkippedAtCap(enq_url[w]) \/ ~SameDomain(enq_url[w])
       THEN /\ Goto(w, "pages")
            /\ UNCHANGED <<enq_url, enq_ret>>
       ELSE /\ enq_url' = [enq_url EXCEPT ![w] = NormalizeUrl(@)]
            /\ enq_ret' = [enq_ret EXCEPT ![w] = "pages"]
            /\ Goto(w, "enq_lock")
    /\ UNCHANGED <<config, mapper, shared, q, unfinished, task, pages, assets, css_urls, coord, history>>

\* the page loop is over
PagesEnd(w) ==
    /\ wpc[w] = "pages"
    /\ pages[w] = {}
    /\ Goto(w, "assets")
    /\ UNCHANGED <<config, mapper, shared, lock, q, unfinished, locals, coord, history>>

\* AssetsNext with the page loop's cap test applied to assets too
AssetsNextCapped(w) ==
    /\ wpc[w] = "assets"
    /\ \E a \in assets[w] :
         /\ assets' = [assets EXCEPT ![w] = @ \ {a}]
         /\ IF SameDomain(a) /\ ~(CapReached /\ a \notin seen_urls)
            THEN /\ enq_url' = [enq_url EXCEPT ![w] = NormalizeUrl(a)]
                 /\ enq_ret' = [enq_ret EXCEPT ![w] = "assets"]
                 /\ Goto(w, "enq_lock")
            ELSE UNCHANGED <<enq_url, enq_ret, wpc>>
    /\ UNCHANGED <<config, mapper, shared, lock, q, unfinished, task, pages, css_urls, coord, history>>

\* for a in assets: if self._same_domain(a): self.enqueue(a)
AssetsNext(w) ==
    /\ wpc[w] = "assets"
    /\ \E a \in assets[w] :
         /\ assets' = [assets EXCEPT ![w] = @ \ {a}]
         /\ IF SameDomain(a)
            THEN /\ enq_url' = [enq_url EXCEPT ![w] = NormalizeUrl(a)]
                 /\ enq_ret' = [enq_ret EXCEPT ![w] = "assets"]
                 /\ Goto(w, "enq_lock")
            ELSE UNCHANGED <<enq_url, enq_ret, wpc>>
    /\ UNCHANGED <<config, mapper, shared, lock, q, unfinished, task, pages, css_urls, coord, history>>

\* the asset loop is over
AssetsEnd(w) ==
    /\ wpc[w] = "assets"
    /\ assets[w] = {}
    /\ Goto(w, "task_done")
    /\ UNCHANGED <<config, mapper, shared, lock, q, unfinished, locals, coord, history>>

\* for u in self.extract_css_urls(url, css_text): self.enqueue(u)
CssNext(w) ==
    /\ wpc[w] = "css"
    /\ \E u \in css_urls[w] :
         /\ css_urls' = [css_urls EXCEPT ![w] = @ \ {u}]
         /\ enq_url' = [enq_url EXCEPT ![w] = NormalizeUrl(u)]
    /\ enq_ret' = [enq_ret EXCEPT ![w] = "css"]
    /\ Goto(w, "enq_lock")
    /\ UNCHANGED <<config, mapper, shared, lock, q, unfinished, task, pages, assets, coord, history>>

\* the CSS loop is over
CssEnd(w) ==
    /\ wpc[w] = "css"
    /\ css_urls[w] = {}
    /\ Goto(w, "task_done")
    /\ UNCHANGED <<config, mapper, shared, lock, q, unfinished, locals, coord, history>>

\* EnqueueLock that goes on without acquiring the lock
EnqueueLockNotTaken(w) ==
    /\ wpc[w] = "enq_lock"
    /\ Goto(w, "enq_check")
    /\ UNCHANGED <<config, mapper, shared, lock, q, unfinished, locals, coord, history>>

\* enqueue(): with self.lock: (acquire)
EnqueueLock(w) ==
    /\ wpc[w] = "enq_lock"
    /\ lock = 0
    /\ lock' = w
    /\ Goto(w, "enq_check")
    /\ UNCHANGED <<config, mapper, shared, q, unfinished, locals, coord, history>>

\* enqueue(): if url in self.seen_urls: return; self.seen_urls.add(url); release
EnqueueCheck(w) ==
    /\ wpc[w] = "enq_check"
    /\ lock' = 0
    /\ IF AlreadySeen(enq_url[w])
       THEN /\ Goto(w, enq_ret[w])
            /\ UNCHANGED seen_urls
       ELSE /\ seen_urls' = seen_urls \cup {enq_url[w]}
            /\ Goto(w, "put")
    /\ UNCHANGED <<config, mapper, saved_urls, page_count, q, unfinished, locals, coord, history>>

\* enqueue(): self.q.put(CrawlTask(url)), outside the lock
EnqueuePut(w) ==
    /\ wpc[w] = "put"
    /\ QPut(enq_url[w])
    /\ SetStatus(enq_url[w], "Enqueued")
    /\ Goto(w, enq_ret[w])
    /\ UNCHANGED <<config, mapper, shared, lock, locals, coord, gets, fetches>>

\* the [OK] print and self.q.task_done() that end a saved task
TaskDoneSaved(w) ==
    /\ wpc[w] = "task_done"
    /\ TaskDone
    /\ SetStatus(task[w], "Saved")
    /\ Goto(w, "get")
    /\ UNCHANGED <<config, mapper, shared, lock, q, locals, coord, puts, gets, fetches>>

WorkerStep(w) ==
    \/ Get(w) \/ GetTimesOut(w) \/ RobotsGate(w) \/ Fetch(w) \/ Save(w)
    \/ LockSaved(w) \/ AddSaved(w) \/ LockCount(w) \/ CountPage(w)
    \/ PagesNext(w) \/ CapCheck(w) \/ PagesEnd(w)
    \/ AssetsNext(w) \/ AssetsEnd(w) \/ CssNext(w) \/ CssEnd(w)
    \/ EnqueueLock(w) \/ EnqueueCheck(w) \/ EnqueuePut(w) \/ TaskDoneSaved(w)

CoordStep ==
    \/ CoordEnqueue \/ CoordSubmit \/ JoinReturns
    \/ ExecutorExit \/ PrintSummary

\* a run the user does not interrupt
Next == CoordStep \/ \E w \in Workers : WorkerStep(w)

Spec == Init /\ [][Next]_vars

\* a run in which Ctrl+C may arrive while run() waits in q.join()
NextInterrupt == CoordStep \/ KeyboardInterrupt \/ \E w \in Workers : WorkerStep(w)

SpecInterrupt == Init /\ [][NextInterrupt]_vars

(***************************************************************************)
(* url_to_local_path as a function of (url, content_type).  A local path   *)
(* is the directories under out_dir and the file name; a file name is the  *)
(* sequence of its pieces: what stands before the first dot, then each     *)
(* suffix with its dot, so that two names are the same string exactly when *)
(* their pieces are the same.                                              *)
(***************************************************************************)
\* the URL paths, query strings and content types the mapping is tried on
MapPaths   == {"", "/", "/style.css", "/a/b", "/d.tar.gz", "/dir/"}
MapQueries == {"", "v=1", "v=2", "v=7141", "v=137874"}
MapCts     == {"text/html", "application/xhtml+xml", "text/css", ""}

\* _hash8: the first 8 hex digits of the SHA-1 of the query string
Hash8(s) ==
    CASE s = "v=1"      -> "1d365e2d"
      [] s = "v=2"      -> "f67bbdbf"
      [] s = "v=7141"   -> "712f4a68"
      [] s = "v=137874" -> "712f4a68"

\* Path(path.lstrip("/")): the directories and the pieces of the last
\* component; a path that is empty or ends with "/" has no file name
PathParts(path) ==
    CASE path = ""           -> [dirs |-> <<>>,      name |-> <<>>]
      [] path = "/"          -> [dirs |-> <<>>,      name |-> <<>>]
      [] path = "/style.css" -> [dirs |-> <<>>,      name |-> <<"style", ".css">>]
      [] path = "/a/b"       -> [dirs |-> <<"a">>,   name |-> <<"b">>]
      [] path = "/d.tar.gz"  -> [dirs |-> <<>>,      name |-> <<"d", ".tar", ".gz">>]
      [] path = "/dir/"      -> [dirs |-> <<"dir">>, name |-> <<>>]

\* local.suffixes and local.stem of a file name
Suffixes(name) == IF name = <<>> THEN <<>> ELSE Tail(name)
StemOf(name)   == IF Len(name) > 1 THEN SubSeq(name, 1, Len(name) - 1) ELSE name

\* content_type and content_type.startswith(HTML_CT)
StartsWithHtml(ct) == ct \in HTML_CT

\* f"{stem}__q={hashed}{suffix}"
WithQueryHash(name, query) ==
    (IF StemOf(name) = <<>> THEN <<"file">> ELSE StemOf(name))
        \o <<"__q=", Hash8(query)>> \o Suffixes(name)

\* not local.suffix: the name ends in no dotted piece
NoSuffix(name) == Len(name) = 1 \/ name[Len(name) - 1] = "__q="

\* url_to_local_path
UrlToLocalPath(url, content_type) ==
    LET parts   == PathParts(url.path)
        named   == IF parts.name = <<>>
                   THEN IF StartsWithHtml(content_type)
                        THEN <<"index", ".html">> ELSE <<"index">>
                   ELSE parts.name
        hashed  == IF url.query # "" THEN WithQueryHash(named, url.query) ELSE named
        final   == IF NoSuffix(hashed) /\ StartsWithHtml(content_type)
                   THEN Append(hashed, ".html") ELSE hashed
    IN [dirs |-> <<url.netloc>> \o parts.dirs, name |-> final]

\* the object after __init__, before run(), for the calls of the mapping
InitMapper ==
    /\ max_pages = 0 /\ include_subdomains = FALSE /\ ignore_robots = TRUE
    /\ workers = 1 /\ robots_load = "not_called" /\ rp = None
    /\ seen_urls = {} /\ saved_urls = {} /\ page_count = 0 /\ lock = 0
    /\ q = <<>> /\ unfinished = 0
    /\ wpc = [w \in Workers |-> "unstarted"]
    /\ task = [w \in Workers |-> NoUrl]
    /\ pages = [w \in Workers |-> {}]
    /\ assets = [w \in Workers |-> {}]
    /\ css_urls = [w \in Workers |-> {}]
    /\ enq_url = [w \in Workers |-> NoUrl]
    /\ enq_ret = [w \in Workers |-> ""]
    /\ cpc = "enqueue" /\ interrupted = FALSE /\ summary = None
    /\ status = [u \in AllUrls |-> "Unseen"]
    /\ puts = [u \in AllUrls |-> 0]
    /\ gets = [u \in AllUrls |-> 0]
    /\ fetches = [u \in AllUrls |-> 0]
    /\ \E p \in MapPaths, qa \in MapQueries, qb \in MapQueries :
         /\ map_a = Url("http", ExCom, p, qa, "")
         /\ map_b = Url("http", ExCom, p, qb, "")
    /\ map_ct \in MapCts
    /\ local_a = NoPath /\ local_b = NoPath

\* local_path = self.url_to_local_path(url, content_type), for the first URL
MapFirst ==
    /\ local_a = NoPath
    /\ local_a' = UrlToLocalPath(map_a, map_ct)
    /\ UNCHANGED <<crawl, map_a, map_b, map_ct, local_b>>

\* the same call for the second URL
MapSecond ==
    /\ local_b = NoPath
    /\ local_b' = UrlToLocalPath(map_b, map_ct)
    /\ UNCHANGED <<crawl, map_a, map_b, map_ct, local_a>>

NextMapper == MapFirst \/ MapSecond

SpecMapper == InitMapper /\ [][NextMapper]_vars

(***************************************************************************)
(* Vocabulary of the properties.                                           *)
(***************************************************************************)
\* worker w is between dequeuing a task and marking it done
InTask(w) == wpc[w] \notin {"unstarted", "get", "returned"}

Terminal == {"Saved", "Skipped", "Failed"}

\* q.join() has returned: run() is past the completion gate, uninterrupted
GateOpened == cpc \in {"exit_with", "summary", "done"} /\ ~interrupted

\* how many times u is on the queue
TimesQueued(u) == Cardinality({ i \in 1..Len(q) : q[i] = u })

\* some worker is in the enqueue() call that inserted u into seen_urls and
\* has not reached its q.put yet
PutBeingMade(u) == \E w \in Workers : wpc[w] = "put" /\ enq_url[w] = u

\* sameScope as the specification words it: the host equals the origin
\* host, or with include_subdomains is a strict dot-suffix subdomain of it
SameScope(u) ==
    \/ u.netloc.labels = base.netloc.labels
    \/ /\ include_subdomains
       /\ Len(u.netloc.labels) > Len(base.netloc.labels)
       /\ \A i \in 1..Len(base.netloc.labels) :
            u.netloc.labels[Len(u.netloc.labels) - Len(base.netloc.labels) + i]
              = base.netloc.labels[i]

\* where a worker is once save_response has returned a path and
\* saved_urls.add(url) was done
AfterSavedAdd ==
    {"lock_count", "count", "pages", "cap_check", "assets", "css",
     "enq_lock", "enq_check", "put", "task_done"}

\* worker w is processing URL u and its call of worker() is running
Processing(w, u) == task[w] = u /\ InTask(w) /\ wpc[w] # "raised"

\* u is referred to by anchors only: no asset attribute and no CSS
\* url(...) of the site leads to it
AnchorOnly(u) ==
    /\ \E d \in DOMAIN Site : u \in ExtractPages(d, Site[d])
    /\ \A d \in DOMAIN Site :
         u \notin ExtractAssets(d, Site[d]) \cup ExtractCssUrls(d, Site[d])

\* where a worker is inside a `with self.lock:` block
LockedRegion == {"add_saved", "count", "cap_check", "enq_check"}

\* where a worker is about to acquire the lock
AcquirePoints == {"lock_saved", "lock_count", "pages", "enq_lock"}

\* the step of worker w that leaves a locked region
ReleaseStep(w) == AddSaved(w) \/ CountPage(w) \/ CapCheck(w) \/ EnqueueCheck(w)

\* u is referred to as an asset only: by an asset attribute or a CSS
\* url(...), by no anchor, and it is not the start URL
AssetOnly(u) ==
    /\ u # start_url
    /\ \E d \in DOMAIN Site :
         u \in ExtractAssets(d, Site[d]) \cup ExtractCssUrls(d, Site[d])
    /\ \A d \in DOMAIN Site : u \notin ExtractPages(d, Site[d])

\* the absolute, normalized http(s) URLs the anchors of document d refer to
AnchorTargets(d) ==
    { v \in { NormalizeUrl(UrlJoin(d, c)) :
                c \in UNION { e.cands : e \in { x \in Response(d).els :
                                                  x.tag = "a" /\ x.attr = "href" } } } :
        v.scheme \in {"http", "https"} }

\* the absolute, normalized http(s) URLs the asset attributes of document
\* d refer to, the <link> elements that are skipped left out
AssetTargets(d) ==
    { v \in UNION { { NormalizeUrl(UrlJoin(d, c)) : c \in { k \in e.cands : ~LinkSkipped(e, k) } } :
                    e \in { x \in Response(d).els : <<x.tag, x.attr>> \in ASSET_ATTRS } } :
        v.scheme \in {"http", "https"} }

\* the number of q.put calls made so far, over the URLs of S
RECURSIVE PutCount(_)
PutCount(S) ==
    IF S = {} THEN 0
    ELSE LET u == CHOOSE x \in S : TRUE IN puts[u] + PutCount(S \ {u})

\* the number of URLs whose task has ended
DoneCount == Cardinality({ u \in AllUrls : status[u] \in Terminal })

\* worker w holds a dequeued task and is still executing its loop body
Busy(w) == InTask(w) /\ wpc[w] # "raised"

\* what the extractors give for the response of d, as enqueue receives it
Discovered(d) ==
    { NormalizeUrl(u) :
        u \in ExtractAssets(d, Response(d)) \cup ExtractCssUrls(d, Response(d)) }

\* worker w's thread is in the loop of worker()
Running(w) == wpc[w] \notin {"unstarted", "returned", "raised"}

\* the worker threads have been submitted
WorkersStarted == cpc \notin {"enqueue", "submit"}

\* the host of u is the origin host up to letter case, on the same port
SameHostAnyCase(u) ==
    /\ u.netloc.labels = base.netloc.labels
    /\ u.netloc.port = base.netloc.port

\* u and v differ at most in their fragment
SameButFragment(u, v) ==
    /\ u.scheme = v.scheme /\ u.netloc = v.netloc
    /\ u.path = v.path /\ u.query = v.query

\* the URLs as the crawl meets them before normalization: the start URL as
\* given and every reference of the site resolved against its document
RawUrls ==
    {RawStartUrl} \cup UNION { { UrlJoin(u, r) : r \in RefsOf(u) } : u \in DOMAIN Site }

\* u and v differ in their query strings and in nothing else
DifferOnlyInQuery(u, v) ==
    /\ u.scheme = v.scheme /\ u.netloc = v.netloc
    /\ u.path = v.path /\ u.frag = v.frag
    /\ u.query # v.query

\* a file name is <stem>__q=<hash8 of query><suffix>
HashedName(name, stem, query, suffix) ==
    name = stem \o <<"__q=", Hash8(query)>> \o suffix

\* the absolute, normalized http(s) URLs a saved response refers to: the
\* anchors and asset attributes of an HTML response, the url(...) of a CSS
\* response, before any scope test
References(u) ==
    LET doc == Response(u)
        refs == IF doc.ct \in HTML_CT
                THEN UNION { { c \in e.cands : ~LinkSkipped(e, c) } :
                             e \in { x \in doc.els :
                                       \/ x.tag = "a" /\ x.attr = "href"
                                       \/ <<x.tag, x.attr>> \in ASSET_ATTRS } }
                ELSE IF doc.ct \in CSS_CT
                     THEN { c \in doc.css : c.scheme # "data" }
                     ELSE {}
    IN { v \in { NormalizeUrl(UrlJoin(u, c)) : c \in refs } : v.scheme \in {"http", "https"} }

\* the URLs reachable from S through references that are in scope
RECURSIVE ReachableInScope(_)
ReachableInScope(S) ==
    LET T == S \cup { v \in UNION { References(u) : u \in S } : SameScope(v) }
    IN IF T = S THEN S ELSE ReachableInScope(T)

\* the saved URLs whose response declares an HTML content type
SavedHtml == { u \in saved_urls : Response(u).ct \in HTML_CT }

(***************************************************************************)
(* C1 (as amended): each distinct normalized URL is put on the queue at    *)
(* most once - exactly once as soon as the enqueue() call that inserted it *)
(* into seen_urls has returned -, is dequeued at most once and fetched at  *)
(* most once; when the completion gate opens every seen URL has been       *)
(* dequeued exactly once, and fetched exactly once if robots allow it and  *)
(* not at all if robots disallow it.                                       *)
(***************************************************************************)
C1_DedupAtMostOnce ==
    /\ \A u \in AllUrls :
         /\ puts[u] <= 1 /\ gets[u] <= 1 /\ fetches[u] <= 1
         /\ TimesQueued(u) <= 1
         /\ puts[u] = 1 => u \in seen_urls
         /\ u \in seen_urls => (puts[u] = 1 \/ PutBeingMade(u))
    /\ GateOpened =>
         \A u \in seen_urls :
            /\ puts[u] = 1 /\ gets[u] = 1
            /\ fetches[u] = (IF AllowedByRobots(u) THEN 1 ELSE 0)

\* C1 as stated: when the crawl is complete every seen URL was put once,
\* dequeued once and fetched once
C1_ProcessedExactlyOnce ==
    GateOpened => \A u \in seen_urls : puts[u] = 1 /\ gets[u] = 1 /\ fetches[u] = 1

\* two workers are inside enqueue() for the same URL and one of them has
\* inserted it: the other is about to find it seen
C1_RaceOnSameUrl ==
    \E w1, w2 \in Workers :
        /\ w1 # w2
        /\ wpc[w1] = "enq_check" /\ wpc[w2] = "put"
        /\ enq_url[w1] = enq_url[w2]
        /\ task[w1] # task[w2]

(***************************************************************************)
(* C2: when q.join() returns on a run without interrupt the queue is       *)
(* empty, no worker is between a dequeue and its task_done, and every URL  *)
(* of seen_urls is Saved, Skipped or Failed; and in every state a worker   *)
(* inside a task keeps unfinished_tasks above zero, so the gate is shut.   *)
(***************************************************************************)
C2_CompletionGate ==
    /\ GateOpened =>
         /\ q = <<>>
         /\ \A w \in Workers : ~InTask(w)
         /\ \A u \in seen_urls : status[u] \in Terminal
    /\ \A w \in Workers : InTask(w) => unfinished >= 1 /\ ~GateOpened

\* the gate has opened after a crawl of several URLs in which one worker
\* had already returned on a dequeue timeout while the other is still in
\* its loop
C2_GateOpenedAfterCrawl ==
    /\ cpc = "exit_with" /\ ~interrupted
    /\ Cardinality(seen_urls) >= 4
    /\ \E w1, w2 \in Workers : wpc[w1] = "returned" /\ wpc[w2] = "get"
    /\ \E u \in seen_urls : status[u] = "Failed"

(***************************************************************************)
(* C3: the crawl cannot get stuck: when every worker's call of worker()    *)
(* is over while run() waits in q.join(), no task is left pending, so the  *)
(* gate can open.                                                          *)
(***************************************************************************)
C3_NoTaskLeftPending ==
    (cpc = "join" /\ \A w \in Workers : WorkerOver(w)) => unfinished = 0

(***************************************************************************)
(* C4: every URL of seen_urls, and so every queued or fetched URL, is the  *)
(* normalized start URL or an http/https URL whose host equals the origin  *)
(* host or, with include_subdomains, is a strict dot-suffix subdomain.     *)
(***************************************************************************)
C4_ScopeContainment ==
    /\ \A u \in seen_urls :
         \/ u = start_url
         \/ u.scheme \in {"http", "https"} /\ u.frag = "" /\ SameScope(u)
    /\ \A u \in AllUrls :
         (puts[u] > 0 \/ gets[u] > 0 \/ fetches[u] > 0 \/ TimesQueued(u) > 0) => u \in seen_urls

\* references from an anchor, an asset attribute and a CSS url(...) have
\* all been extracted, a subdomain page was accepted, and the out-of-scope
\* ones are not in seen_urls
C4_ExtractedEverywhere ==
    /\ include_subdomains
    /\ status[H("/")] = "Saved" /\ status[H("/a")] = "Saved" /\ status[H("/s.css")] = "Saved"
    /\ SubRoot \in seen_urls
    /\ Url("http", EvilCom, "/e.png", "", "") \notin seen_urls

(***************************************************************************)
(* C5: with robots respected and the policy loaded, a URL the policy       *)
(* disallows is never fetched and never saved; the task that dequeued it   *)
(* is at the robots check or already marked done as Skipped, and never in  *)
(* the steps that fetch, save or enqueue.                                  *)
(***************************************************************************)
C5_RobotsBlock ==
    (~ignore_robots /\ rp # None) =>
        \A u \in AllUrls :
            RobotsTxt(u) = "disallow" =>
                /\ fetches[u] = 0
                /\ u \notin saved_urls
                /\ status[u] \in {"Unseen", "Enqueued", "InProgress", "Skipped"}
                /\ \A w \in Workers : (InTask(w) /\ task[w] = u) => wpc[w] = "robots"
                /\ (gets[u] = 1 /\ \A w \in Workers : ~(InTask(w) /\ task[w] = u))
                      => status[u] = "Skipped"

\* a disallowed URL was discovered, dequeued and skipped
C5_DisallowedSkipped ==
    /\ ~ignore_robots /\ rp # None
    /\ status[H("/private/x")] = "Skipped"
    /\ gets[H("/private/x")] = 1

(***************************************************************************)
(* C6: a filesystem error in save_response is local to its task: the step  *)
(* that does not save leaves the URL out of saved_urls, marks the task     *)
(* done as Failed and takes the worker back to its dequeue.                *)
(***************************************************************************)
C6_SaveErrorIsLocal ==
    [][\A w \in Workers :
          (wpc[w] = "save" /\ wpc'[w] \notin {"save", "lock_saved"}) =>
              /\ wpc'[w] = "get"
              /\ unfinished' = unfinished - 1
              /\ status'[task[w]] = "Failed"
              /\ task[w] \notin saved_urls']_vars

(***************************************************************************)
(* C7: with max_pages > 0 at most max_pages responses with an HTML content *)
(* type are fetched and saved.                                             *)
(***************************************************************************)
C7_PageCap == max_pages > 0 => Cardinality(SavedHtml) <= max_pages

(***************************************************************************)
(* C8: once KeyboardInterrupt was caught in q.join(), run() can go on to   *)
(* its summary whatever the queue still holds and whatever the workers are *)
(* doing.                                                                  *)
(***************************************************************************)
C8_InterruptStopsWaiting ==
    (cpc = "exit_with" /\ interrupted) => ENABLED ExecutorExit

(***************************************************************************)
(* C9: when rp.read() raised the policy is None, and with the policy None  *)
(* or ignore_robots set every URL is allowed and no task is skipped; a URL *)
(* whose evaluation raises is allowed and never skipped either.            *)
(***************************************************************************)
C9_RobotsFailOpen ==
    /\ robots_load = "raised" => rp = None
    /\ (ignore_robots \/ robots_load = "raised") =>
          \A u \in AllUrls : AllowedByRobots(u) /\ status[u] # "Skipped"
    /\ \A u \in AllUrls :
          RobotsTxt(u) = "raise" => AllowedByRobots(u) /\ status[u] # "Skipped"

\* robots.txt could not be read, and a URL it disallows was fetched and saved
C9_DisallowedSavedAfterLoadError ==
    /\ ~ignore_robots /\ robots_load = "raised"
    /\ status[H("/private/x")] = "Saved"
    /\ fetches[H("/private/x")] = 1

(***************************************************************************)
(* C10 (as amended): for every HTML page whose task ended Saved, also one  *)
(* processed after page_count reached max_pages, every in-scope asset URL  *)
(* extracted from it is in seen_urls, and was put on the queue once or is  *)
(* being put on it by the enqueue() call that inserted it.                 *)
(***************************************************************************)
C10_AssetsNeverCapped ==
    \A p \in AllUrls :
        (status[p] = "Saved" /\ Response(p).ct \in HTML_CT) =>
            \A a \in ExtractAssets(p, Response(p)) :
                /\ a \in seen_urls
                /\ puts[a] = 1 \/ PutBeingMade(a)

\* C10 as stated: when the crawl is complete every asset of every saved
\* HTML page has been fetched
C10_AssetsFetched ==
    (cpc = "done" /\ ~interrupted) =>
        \A p \in AllUrls :
            (status[p] = "Saved" /\ Response(p).ct \in HTML_CT) =>
                \A a \in ExtractAssets(p, Response(p)) : fetches[a] >= 1

\* with the cap of 1 already reached by the start page, the page of the
\* iframe is being processed and its so far unseen asset is being put on
\* the queue
C10_AssetPutPastCap ==
    /\ max_pages = 1 /\ page_count = 1
    /\ \E w \in Workers :
         /\ task[w] = H("/private/x")
         /\ wpc[w] = "put" /\ enq_ret[w] = "assets"
         /\ enq_url[w] = H("/i.png")

(***************************************************************************)
(* C11: with max_pages > 0 the counter never exceeds max_pages; the step   *)
(* that counts a saved HTML response adds exactly one below the cap and    *)
(* leaves the counter unchanged at the cap; no other step changes the      *)
(* counter, so it never decreases.                                         *)
(***************************************************************************)
C11_PageCounterBound ==
    /\ [](max_pages > 0 => page_count <= max_pages)
    /\ [][/\ page_count' >= page_count
          /\ \A w \in Workers :
               (wpc[w] = "count" /\ wpc'[w] = "pages") =>
                   /\ task[w] \in saved_urls /\ IsHtml(Response(task[w]).ct)
                   /\ page_count' = (IF max_pages > 0 /\ page_count >= max_pages
                                     THEN page_count ELSE page_count + 1)
          /\ page_count' # page_count =>
               \E w \in Workers : wpc[w] = "count" /\ wpc'[w] = "pages"]_vars

\* a second HTML response was saved and counted with the cap of 1 already
\* reached: the counter stayed at 1
C11_CountedAtCap ==
    /\ max_pages = 1 /\ page_count = 1
    /\ Cardinality(SavedHtml) = 2
    /\ \E w \in Workers : wpc[w] = "pages" /\ task[w] # start_url

(***************************************************************************)
(* C12: with no page cap, robots ignored and no fetch or save failing,     *)
(* when run() has completed seen_urls and saved_urls both equal the set of *)
(* in-scope URLs reachable from the start URL through anchors, asset       *)
(* references and CSS url(...) references.                                 *)
(***************************************************************************)
C12_ReachabilityComplete ==
    (cpc = "done" /\ ~interrupted /\ max_pages = 0 /\ ignore_robots /\ FaultsSoFar = 0) =>
        /\ seen_urls = ReachableInScope({start_url})
        /\ saved_urls = seen_urls

(***************************************************************************)
(* C13: two URLs that differ only in their fragment normalize to the same  *)
(* URL; every URL in seen_urls or put on the queue is without fragment, so *)
(* no two of them differ only in the fragment, and each was put at most    *)
(* once: URLs that differ only in the fragment make one element of         *)
(* seen_urls and one task.                                                 *)
(***************************************************************************)
C13_FragmentInsensitive ==
    /\ \A u, v \in RawUrls :
         SameButFragment(u, v) => NormalizeUrl(u) = NormalizeUrl(v)
    /\ \A x \in seen_urls : x.frag = ""
    /\ \A x \in DOMAIN puts :
         puts[x] > 0 => (x.frag = "" /\ puts[x] = 1 /\ x \in seen_urls)

\* the start URL, given as /#top and already scheduled, comes back as the
\* link /#x of page /a and is in enqueue() again; /a itself was linked as
\* /a#top and /a#end and scheduled once
C13_SecondFragmentEnqueued ==
    \E w \in Workers :
        /\ wpc[w] = "enq_check"
        /\ task[w] = H("/a")
        /\ enq_url[w] = start_url
        /\ puts[start_url] = 1 /\ puts[H("/a")] = 1
        /\ Cardinality({ r \in RawUrls : SameButFragment(r, H("/a")) }) >= 2

(***************************************************************************)
(* C14: the same URL and content type give the same local path, and two    *)
(* URLs that differ only in their query strings, mapped with one content   *)
(* type, give two distinct local paths in the same directory whose names   *)
(* are <stem>__q=<hash> + suffix with one stem and one suffix.             *)
(***************************************************************************)
C14_PathMapping ==
    (local_a # NoPath /\ local_b # NoPath) =>
        /\ map_a = map_b => local_a = local_b
        /\ DifferOnlyInQuery(map_a, map_b) =>
             /\ local_a # local_b
             /\ local_a.dirs = local_b.dirs
             /\ (map_a.query # "" /\ map_b.query # "") =>
                  \E n \in 1..Len(local_a.name) :
                      LET stem   == SubSeq(local_a.name, 1, n - 1)
                          suffix == SubSeq(local_a.name, n + 2, Len(local_a.name))
                      IN /\ HashedName(local_a.name, stem, map_a.query, suffix)
                         /\ HashedName(local_b.name, stem, map_b.query, suffix)

(***************************************************************************)
(* C15: a URL is in saved_urls exactly when its fetch returned 200 and its *)
(* body was written (its task is past saved_urls.add or ended Saved); a    *)
(* task that ends Skipped or Failed leaves saved_urls and the queue as     *)
(* they are; every dequeued URL is being processed or has ended in one of  *)
(* Saved, Skipped, Failed, keeps that state and is never queued again.     *)
(***************************************************************************)
C15_SavedSetAndOutcomes ==
    /\ [](\A u \in AllUrls :
            /\ u \in saved_urls <=>
                 \/ status[u] = "Saved"
                 \/ \E w \in Workers : Processing(w, u) /\ wpc[w] \in AfterSavedAdd
            /\ status[u] \in {"Skipped", "Failed"} => u \notin saved_urls
            /\ status[u] \in Terminal =>
                 gets[u] = 1 /\ puts[u] = 1 /\ TimesQueued(u) = 0 /\ ~PutBeingMade(u)
            /\ gets[u] = 1 =>
                 \/ status[u] \in Terminal
                 \/ \E w \in Workers : Processing(w, u))
    /\ [][\A u \in AllUrls :
            /\ status[u] \in Terminal => status'[u] = status[u]
            /\ (status[u] # status'[u] /\ status'[u] \in {"Skipped", "Failed"}) =>
                 /\ saved_urls' = saved_urls /\ seen_urls' = seen_urls
                 /\ q' = q /\ puts' = puts]_vars

(***************************************************************************)
(* C16: once page_count has reached max_pages (> 0), no step adds to       *)
(* seen_urls a so far unseen URL that only anchors refer to, whatever the  *)
(* interleaving of the workers.                                            *)
(***************************************************************************)
C16_NoNewPageAtCap ==
    [][\A u \in AllUrls :
          (max_pages > 0 /\ page_count >= max_pages /\ AnchorOnly(u) /\ u \notin seen_urls)
              => u \notin seen_urls']_vars

(***************************************************************************)
(* C17: a worker is inside a locked region exactly when it holds the lock, *)
(* so no two workers are inside one at the same time; and once the workers *)
(* exist every step that changes seen_urls, saved_urls or page_count is    *)
(* the step of the lock's holder that ends its locked region: the test and *)
(* the update it makes are one atomic step for every other worker.         *)
(***************************************************************************)
C17_LockDiscipline ==
    /\ [](/\ lock \in Workers \cup {0}
          /\ \A w \in Workers : wpc[w] \in LockedRegion <=> lock = w
          /\ \A w1, w2 \in Workers :
               (wpc[w1] \in LockedRegion /\ wpc[w2] \in LockedRegion) => w1 = w2)
    /\ [][(shared' # shared /\ cpc # "enqueue") =>
             /\ lock \in Workers
             /\ wpc[lock] \in LockedRegion /\ wpc'[lock] \notin LockedRegion
             /\ lock' = 0
             /\ \A w \in Workers \ {lock} : wpc'[w] = wpc[w]]_vars

\* one worker is inside the locked region of the page counter while the
\* other waits for the lock in enqueue()
C17_Contention ==
    \E w1, w2 \in Workers :
        /\ w1 # w2
        /\ lock = w1 /\ wpc[w1] = "count"
        /\ wpc[w2] = "enq_lock"

(***************************************************************************)
(* C18: a worker at the network fetch, the file write or the queue put     *)
(* does not hold the lock, and a worker about to acquire the lock does not *)
(* hold it (enqueue() is entered with the lock released); the lock is      *)
(* taken only when free, its holder can always take the step that releases *)
(* it, and the holder's next step is that release: the lock cannot cause a *)
(* deadlock and every acquisition is followed by its release.              *)
(***************************************************************************)
C18_LockScope ==
    /\ [](\A w \in Workers :
            /\ wpc[w] \in {"fetch", "save", "put"} => lock # w
            /\ wpc[w] \in AcquirePoints => lock # w
            /\ lock = w => ENABLED ReleaseStep(w))
    /\ [][\A w \in Workers :
            /\ (lock = w /\ wpc'[w] # wpc[w]) => lock' = 0
            /\ (lock # w /\ lock' = w) => (lock = 0 /\ wpc[w] \in AcquirePoints)]_vars

\* a worker that passed the cap test of the page loop has released the
\* lock and waits in enqueue() for it while the other worker holds it, and
\* a put is never made under the lock
C18_EnqueueWaitsForLock ==
    \E w1, w2 \in Workers :
        /\ wpc[w1] = "enq_lock" /\ enq_ret[w1] = "pages"
        /\ lock = w2 /\ w2 # w1
        /\ puts[H("/a")] = 1

(***************************************************************************)
(* C19 (as amended): only a saved response that declares an HTML content   *)
(* type changes page_count, however its URL was discovered: a worker is at *)
(* the counter only with such a response, and a URL whose response is not  *)
(* HTML, an asset or not, never changes the counter.                       *)
(***************************************************************************)
C19_OnlyHtmlCounted ==
    /\ [](\A w \in Workers :
            wpc[w] \in {"lock_count", "count"} =>
                /\ IsHtml(Response(task[w]).ct)
                /\ task[w] \in saved_urls)
    /\ [][page_count' # page_count =>
            \E w \in Workers :
                /\ wpc[w] = "count" /\ wpc'[w] = "pages"
                /\ IsHtml(Response(task[w]).ct)
                /\ page_count' = page_count + 1]_vars

\* C19 as stated: the step that counts the response of a URL discovered
\* only as an asset leaves page_count unchanged
C19_AssetsNeverCounted ==
    [][\A w \in Workers :
          (wpc[w] = "count" /\ AssetOnly(task[w])) => page_count' = page_count]_vars

\* without a cap, the page of the iframe, discovered only as an asset, has
\* just been counted, and the stylesheet was saved without being counted
C19_IframeCounted ==
    /\ max_pages = 0
    /\ AssetOnly(H("/private/x")) /\ AssetOnly(H("/s.css"))
    /\ status[H("/s.css")] = "Saved"
    /\ \E w \in Workers : wpc[w] = "pages" /\ task[w] = H("/private/x")
    /\ page_count = Cardinality(SavedHtml) /\ page_count >= 2

(***************************************************************************)
(* C20: a URL whose host is the origin host up to letter case, on the same *)
(* port, is in scope with include_subdomains on or off, so every such      *)
(* anchor of a saved page is among the pages extracted from it; and every  *)
(* URL accepted with include_subdomains off (an equal netloc) is accepted  *)
(* with it on.                                                             *)
(***************************************************************************)
C20_HostCaseInsensitive ==
    /\ \A d \in DOMAIN Site :
         (status[d] = "Saved" /\ IsHtml(Response(d).ct)) =>
             \A u \in AnchorTargets(d) :
                 SameHostAnyCase(u) => (SameDomain(u) /\ u \in ExtractPages(d, Response(d)))
    /\ \A u \in AllUrls :
         /\ u.netloc = base.netloc => SameDomain(u)
         /\ (~include_subdomains /\ SameDomain(u)) => u.netloc = base.netloc

(***************************************************************************)
(* C21 (as amended): the step that extracts the pages and assets of a      *)
(* saved HTML response yields two sets of normalized http(s) URLs in       *)
(* scope; a URL is in both exactly when an anchor and an asset attribute   *)
(* of the document both refer to it; the step leaves seen_urls, saved_urls *)
(* and the queue unchanged and page_count as the counter update before the *)
(* extraction set it.                                                      *)
(***************************************************************************)
C21_ExtractorSets ==
    [][\A w \in Workers :
          (wpc[w] = "count" /\ wpc'[w] = "pages") =>
              /\ \A u \in pages'[w] \cup assets'[w] :
                   u.scheme \in {"http", "https"} /\ u.frag = "" /\ SameScope(u)
              /\ pages'[w] \subseteq AnchorTargets(task[w])
              /\ assets'[w] \subseteq AssetTargets(task[w])
              /\ pages'[w] \cap assets'[w] =
                   { u \in AnchorTargets(task[w]) \cap AssetTargets(task[w]) : SameDomain(u) }
              /\ seen_urls' = seen_urls /\ saved_urls' = saved_urls
              /\ q' = q /\ unfinished' = unfinished
              /\ page_count' = (IF max_pages > 0 /\ page_count >= max_pages
                                THEN page_count ELSE page_count + 1)]_vars

\* C21 as stated: no URL is both among the pages and among the assets a
\* worker has extracted, and the extracting step changes none of
\* seen_urls, saved_urls and the queue
C21_DisjointSets ==
    /\ [](\A w \in Workers : pages[w] \cap assets[w] = {})
    /\ [][\A w \in Workers :
            (wpc[w] = "count" /\ wpc'[w] = "pages") =>
                /\ seen_urls' = seen_urls /\ saved_urls' = saved_urls
                /\ q' = q /\ unfinished' = unfinished]_vars

\* page /a was just extracted: /i.png, the target of an anchor and of a
\* srcset entry, is among its pages and among its assets
C21_SameTargetInBoth ==
    \E w \in Workers :
        /\ wpc[w] = "pages" /\ task[w] = H("/a")
        /\ H("/i.png") \in pages[w] \cap assets[w]
        /\ H("/i.png") \in AnchorTargets(H("/a")) \cap AssetTargets(H("/a"))

(***************************************************************************)
(* C22: a worker leaves its loop only by the dequeue that found the queue  *)
(* empty, and a worker that left is never running again; and once the      *)
(* workers are started, whenever the queue is non-empty or a dequeued URL  *)
(* is still in progress, some worker is running.                           *)
(***************************************************************************)
C22_NoStrandedWork ==
    /\ [](WorkersStarted =>
            ((q # <<>> \/ \E u \in AllUrls : status[u] = "InProgress")
                => \E w \in Workers : Running(w)))
    /\ [][\A w \in Workers :
            /\ (Running(w) /\ ~Running(w)') =>
                  (wpc[w] = "get" /\ q = <<>> /\ wpc'[w] = "returned")
            /\ (WorkersStarted /\ ~Running(w)) => ~Running(w)']_vars

(***************************************************************************)
(* C23: a worker ends its task only by the step that marks it done: that   *)
(* step lowers the pending count by one and gives the URL its terminal     *)
(* state, once; it comes when the loops over what the task discovered are  *)
(* exhausted, every asset and stylesheet reference of a saved document     *)
(* being put or in the hands of a worker that is putting it; q.put is made *)
(* only by the coordinator's first enqueue or by a worker inside a task.   *)
(* The pending count is the number of puts minus the number of ended       *)
(* tasks, is never negative, and is positive while a worker is in a task.  *)
(***************************************************************************)
C23_CompletionBookkeeping ==
    /\ [](/\ unfinished = PutCount(AllUrls) - DoneCount
          /\ unfinished >= 0
          /\ (\E w \in Workers : Busy(w)) => unfinished > 0)
    /\ [][/\ \A w \in Workers :
               (Busy(w) /\ ~Busy(w)') =>
                   /\ status[task[w]] = "InProgress"
                   /\ status'[task[w]] \in Terminal
                   /\ unfinished' = unfinished - 1
                   /\ pages[w] \cup assets[w] \cup css_urls[w] = {}
                   /\ status'[task[w]] = "Saved" =>
                        \A u \in Discovered(task[w]) :
                            /\ u \in seen_urls
                            /\ puts[u] > 0 \/ \E v \in Workers : Busy(v) /\ wpc[v] = "put"
                                                                  /\ enq_url[v] = u
          /\ \A u \in AllUrls :
               /\ status[u] \in Terminal => status'[u] = status[u]
               /\ (status[u] \notin Terminal /\ status'[u] \in Terminal) =>
                     \E w \in Workers : Busy(w) /\ ~Busy(w)' /\ task[w] = u
          /\ unfinished' < unfinished =>
                \E w \in Workers : Busy(w) /\ ~Busy(w)'
          /\ puts' # puts =>
                \/ cpc = "enqueue"
                \/ \E w \in Workers : Busy(w) /\ Busy(w)' /\ wpc[w] = "put"
                                        /\ status[task[w]] = "InProgress"]_vars

====
